---- MODULE Spec2Model ----
(***************************************************************************)
(* A model of pydatapipes/pipes.py: PipeVerb (a deferred, partially        *)
(* applied call), pipeverb / singledispatch_pipeverb (verb factories over  *)
(* a plain or a singledispatch function) and make_pipesource (patching a   *)
(* class's __rshift__ so that it hands PipeVerb operands to the verb).     *)
(*                                                                         *)
(* Every Python value is a record [kind, cls, items]: kind "ok" for a      *)
(* value, "raise" for a raised exception (cls is the exception type),      *)
(* "notimpl" for the NotImplemented sentinel.  items is a sequence of      *)
(* atoms (strings).  A PipeVerb instance carries pipe_func, args, kwargs.  *)
(***************************************************************************)
EXTENDS Integers, Sequences, FiniteSets, TLC

\* ---- bounds of the model ----
MaxRecursion == 4      \* depth at which the interpreter raises RecursionError
MaxPosArgs == 2        \* captured positional arguments of a verb call
MaxListLen == 1        \* length of a list used as pipe subject
MaxInstalls == 2       \* wrappers ever installed on one class

\* ---- values ----
Obj(c, its) == [kind |-> "ok", cls |-> c, items |-> its]
Raise(exc, its) == [kind |-> "raise", cls |-> exc, items |-> its]
NotImplemented == [kind |-> "notimpl", cls |-> "NotImplementedType", items |-> <<>>]
IntVal(a) == Obj("Int", <<a>>)

\* ---- classes of the program under test ----
\* Tester: defines __rshift__ returning "TESTER"      (tests, class Tester)
\* Sub(Tester): overrides __rshift__, delegating to Tester.__rshift__
\* Child(Tester): inherits __rshift__
\* Plain: a user class without __rshift__
\* Int: built in, its __rshift__ returns NotImplemented for foreign operands
\* List, Str, Tuple: built in, no __rshift__ at all; PipeVerb: only __rrshift__
Classes == {"Tester", "Sub", "Child", "Plain", "Int", "List", "Str", "Tuple", "PipeVerb"}
\* built-in types reject attribute assignment with TypeError
Immutable(c) == c \in {"Int", "List", "Str", "Tuple"}
MRO(c) == IF c \in {"Sub", "Child"} THEN <<c, "Tester">> ELSE <<c>>

\* function objects: an original method, a wrapper closure, or no attribute
NoAttr == [kind |-> "none", owner |-> "none", serial |-> 0]
OrigFn(c) == [kind |-> "orig", owner |-> c, serial |-> 0]
Wrapper(c, n) == [kind |-> "wrapper", owner |-> c, serial |-> n]

InitRshift == [c \in Classes |-> IF c \in {"Tester", "Sub", "Int"} THEN OrigFn(c) ELSE NoAttr]
InitOrigRshift == [c \in Classes |-> NoAttr]

VARIABLES
  rshift,        \* class -> own __rshift__ attribute (class __dict__)
  orig_rshift,   \* class -> own __orig_rshift__ attribute
  pipeoperator,  \* function objects carrying pipeoperator = True
  installs,      \* class -> number of wrapper closures created for it
  dispatchMade,  \* singledispatch(generic) has been applied
  registry,      \* the dispatch function's registry: class -> implementation
  funcDoc,       \* __doc__ of the dispatch function
  verbTarget,    \* func captured by the verb factory: "none", "raw", "dispatch"
  verbRegister,  \* the verb factory exposes register
  verbDoc,       \* __doc__ of the verb factory
  last           \* the last operation performed and what it returned

vars == <<rshift, orig_rshift, pipeoperator, installs, dispatchMade, registry,
          funcDoc, verbTarget, verbRegister, verbDoc, last>>

\* attribute lookup on a class through its MRO (getattr / hasattr on a type)
Lookup(attrs, c) ==
  LET m == MRO(c)
      hits == {i \in 1..Len(m) : attrs[m[i]].kind # "none"}
  IN IF hits = {} THEN NoAttr
     ELSE attrs[m[CHOOSE i \in hits : \A j \in hits : i <= j]]

\* ---- user functions of the test suite (the bodies of the verbs) ----
\* generic:      def append(input, x=1, y=2): raise NotImplementedError(type(input))
\* append_list:  def append_list(input, x=1, y=2): return input + [x, y]
\* append_one:   def append_list(input, x=1): return input + [x]
Impls == {"append_list", "append_one"}
Params(impl) == IF impl = "append_one" THEN <<"input", "x">> ELSE <<"input", "x", "y">>
Default(name) == IF name = "x" THEN IntVal("1") ELSE IntVal("2")
GenericDoc == "Docstring generic"
NoDoc == "None"

\* Python's binding of a call's arguments to a signature; kwargs is a set of
\* <<name, value>> pairs.
KwNames(kwargs) == {p[1] : p \in kwargs}
BindOk(params, posargs, kwargs) ==
  /\ Len(posargs) >= 1
  /\ Len(posargs) <= Len(params)
  /\ \A k \in KwNames(kwargs) :
       /\ \E i \in 1..Len(params) : params[i] = k
       /\ ~ \E i \in 1..Len(posargs) : params[i] = k
Arg(params, posargs, kwargs, name) ==
  IF \E i \in 1..Len(posargs) : params[i] = name
    THEN posargs[CHOOSE i \in 1..Len(posargs) : params[i] = name]
    ELSE IF name \in KwNames(kwargs)
      THEN (CHOOSE p \in kwargs : p[1] = name)[2]
      ELSE Default(name)

\* the body of one implementation, run on bound arguments
CallImpl(impl, posargs, kwargs) ==
  LET ps == Params(impl)
      input == posargs[1]
      x == Arg(ps, posargs, kwargs, "x")
      y == Arg(ps, posargs, kwargs, "y")
  IN IF ~ BindOk(ps, posargs, kwargs) THEN Raise("TypeError", <<"arguments">>)
     ELSE CASE impl = "generic" -> Raise("NotImplementedError", <<input.cls>>)
            [] impl = "append_list" -> Obj(input.cls, input.items \o x.items \o y.items)
            [] impl = "append_one" -> Obj(input.cls, input.items \o x.items)

\* ---- functools.singledispatch, as pipes.py imports and re-exports it ----
RegClasses == {"List", "Tester"}
Dispatch(reg, c) ==
  LET m == MRO(c)
      hits == {i \in 1..Len(m) : m[i] \in DOMAIN reg /\ reg[m[i]] # "none"}
  IN IF hits = {} THEN "generic"
     ELSE reg[m[CHOOSE i \in hits : \A j \in hits : i <= j]]

\* calling a function object: the raw generic function or its dispatch wrapper
Call(reg, fn, posargs, kwargs) ==
  IF fn = "dispatch"
    THEN IF posargs = <<>> THEN Raise("TypeError", <<"arguments">>)
         ELSE CallImpl(Dispatch(reg, posargs[1].cls), posargs, kwargs)
    ELSE CallImpl("generic", posargs, kwargs)

\* ---- class PipeVerb ----
PipeVerbInit(func, args, kwargs) ==
  [kind |-> "ok", cls |-> "PipeVerb", items |-> <<>>,
   pipe_func |-> func, args |-> args, kwargs |-> kwargs]

RRshift_argsFirst(reg, pv, input) == Call(reg, pv.pipe_func, pv.args \o <<input>>, pv.kwargs)
RRshift_dropKwargs(reg, pv, input) == Call(reg, pv.pipe_func, <<input>> \o pv.args, {})
RRshift_swallow(reg, pv, input) ==
  LET r == Call(reg, pv.pipe_func, <<input>> \o pv.args, pv.kwargs)
  IN IF r.kind = "raise" THEN Obj("NoneType", <<>>) ELSE r
RRshift(reg, pv, input) == Call(reg, pv.pipe_func, <<input>> \o pv.args, pv.kwargs)

IsPipeVerb(other) == other.cls = "PipeVerb"

\* ---- the operator make_pipesource installs, and the originals it wraps ----
\* w = [rshift, orig_rshift] are the class dictionaries the call runs against;
\* fuel counts the interpreter's remaining recursion depth.
RECURSIVE CallOp(_, _, _, _, _, _)
WrapperBody_alwaysOrig(w, reg, fn, self, other, fuel) ==
  CallOp(w, reg, Lookup(w.orig_rshift, self.cls), self, other, fuel - 1)
WrapperBody(w, reg, fn, self, other, fuel) ==
  IF IsPipeVerb(other) THEN RRshift(reg, other, self)
  ELSE CallOp(w, reg, Lookup(w.orig_rshift, self.cls), self, other, fuel - 1)

OrigBody(w, reg, fn, self, other, fuel) ==
  CASE fn.owner = "Tester" -> Obj("Str", <<"TESTER">>)
    [] fn.owner = "Int" -> IF other.cls = "Int" THEN IntVal("0") ELSE NotImplemented
    [] fn.owner = "Sub" ->
         LET inner == CallOp(w, reg, Lookup(w.rshift, "Tester"), self, other, fuel - 1)
         IN IF inner.kind = "ok" THEN Obj("Tuple", <<"Sub">> \o inner.items) ELSE inner

CallOp(w, reg, fn, self, other, fuel) ==
  IF fuel = 0 THEN Raise("RecursionError", <<>>)
  ELSE CASE fn.kind = "none" -> Raise("AttributeError", <<"__rshift__">>)
         [] fn.kind = "wrapper" -> WrapperBody(w, reg, fn, self, other, fuel)
         [] fn.kind = "orig" -> OrigBody(w, reg, fn, self, other, fuel)

\* ---- the interpreter's evaluation of  left >> right ----
Rshift(w, reg, left, right) ==
  LET fn == Lookup(w.rshift, left.cls)
      r == IF fn.kind = "none" THEN NotImplemented
           ELSE CallOp(w, reg, fn, left, right, MaxRecursion)
  IN IF r.kind # "notimpl" THEN r
     ELSE IF IsPipeVerb(right) /\ left.cls # "PipeVerb" THEN RRshift(reg, right, left)
     ELSE Raise("TypeError", <<"unsupported operand">>)

\* ---- pipeverb(func) ----
\* decorated(*args, **kwargs): the verb factory's call
Decorated_unwrapped(func, args, kwargs) == PipeVerbInit("raw", args, kwargs)
Decorated(func, args, kwargs) == PipeVerbInit(func, args, kwargs)
\* hasattr(func, 'register'): only a dispatch function has one
HasRegister(func) == func = "dispatch"
\* functools.wraps(func) copies func.__doc__ onto decorated
WrapsDoc_notCopied(doc) == NoDoc
WrapsDoc(doc) == doc

\* ---- make_pipesource(cls): the guard of the patch ----
ShouldPatch_noMarkerCheck(rs, marked, c) == Lookup(rs, c).kind # "none"
ShouldPatch_noHasattr(rs, marked, c) == Lookup(rs, c) \notin marked
ShouldPatch(rs, marked, c) ==
  /\ Lookup(rs, c).kind # "none"
  /\ Lookup(rs, c) \notin marked

\* ---- inputs ----
PosArgs == {[i \in 1..n |-> IntVal(IF i % 2 = 1 THEN "2" ELSE "3")] : n \in 0..MaxPosArgs}
KwArgs == {{}, {<<"y", IntVal("4")>>}}
ChainArgs == {<<IntVal("2")>>, <<IntVal("3"), IntVal("3")>>}
Instances == {Obj(c, <<>>) : c \in {"Tester", "Sub", "Child", "Plain"}}
Subjects ==
  {Obj("List", [i \in 1..n |-> "1"]) : n \in 0..MaxListLen}
    \cup Instances \cup {IntVal("1"), PipeVerbInit("raw", <<>>, {})}
PatchInputs == {"Tester", "Sub", "Child", "Plain", "Int", "List"}
Operands == {IntVal("1")}

World == [rshift |-> rshift, orig_rshift |-> orig_rshift]
World0 == [rshift |-> InitRshift, orig_rshift |-> InitOrigRshift]

Init ==
  /\ rshift = InitRshift
  /\ orig_rshift = InitOrigRshift
  /\ pipeoperator = {}
  /\ installs = [c \in Classes |-> 0]
  /\ dispatchMade = FALSE
  /\ registry = [c \in RegClasses |-> "none"]
  /\ funcDoc = NoDoc
  /\ verbTarget = "none"
  /\ verbRegister = FALSE
  /\ verbDoc = NoDoc
  /\ last = [kind |-> "init"]

ClassVars == <<rshift, orig_rshift, pipeoperator, installs>>
VerbVars == <<verbTarget, verbRegister, verbDoc>>
DispatchVars == <<dispatchMade, registry, funcDoc>>

\* singledispatch(generic): the dispatch function, with the generic's __doc__
Singledispatch ==
  /\ ~ dispatchMade
  /\ dispatchMade' = TRUE
  /\ funcDoc' = GenericDoc
  /\ last' = [kind |-> "singledispatch"]
  /\ UNCHANGED <<ClassVars, VerbVars, registry>>

\* verb = pipeverb(func), func being what the name is bound to at that time
Pipeverb ==
  /\ verbTarget = "none"
  /\ LET func == IF dispatchMade THEN "dispatch" ELSE "raw"
     IN /\ verbTarget' = func
        /\ verbRegister' = HasRegister(func)
        /\ verbDoc' = WrapsDoc(IF dispatchMade THEN funcDoc ELSE GenericDoc)
  /\ last' = [kind |-> "pipeverb"]
  /\ UNCHANGED <<ClassVars, DispatchVars>>

\* verb = singledispatch_pipeverb(generic) == pipeverb(singledispatch(generic))
SingledispatchPipeverb ==
  /\ ~ dispatchMade
  /\ verbTarget = "none"
  /\ dispatchMade' = TRUE
  /\ funcDoc' = GenericDoc
  /\ verbTarget' = "dispatch"
  /\ verbRegister' = HasRegister("dispatch")
  /\ verbDoc' = WrapsDoc(GenericDoc)
  /\ last' = [kind |-> "singledispatch_pipeverb"]
  /\ UNCHANGED <<ClassVars, registry>>

\* func.register(c)(impl) or verb.register(c)(impl): decorated.register is
\* func.register, so both write the one registry of the dispatch function
Register(via, c, impl) ==
  /\ dispatchMade
  /\ via = "verb" => verbRegister
  /\ registry' = [registry EXCEPT ![c] = impl]
  /\ last' = [kind |-> "register", via |-> via, cls |-> c, impl |-> impl,
              decorated |-> (verbTarget # "none")]
  /\ UNCHANGED <<ClassVars, VerbVars, dispatchMade, funcDoc>>

MakePipesource(c) ==
  /\ IF ShouldPatch(rshift, pipeoperator, c) /\ ~ Immutable(c)
       THEN /\ installs[c] < MaxInstalls
            /\ orig_rshift' = [orig_rshift EXCEPT ![c] = Lookup(rshift, c)]
            /\ rshift' = [rshift EXCEPT ![c] = Wrapper(c, installs[c] + 1)]
            /\ pipeoperator' = pipeoperator \cup {Wrapper(c, installs[c] + 1)}
            /\ installs' = [installs EXCEPT ![c] = @ + 1]
       ELSE UNCHANGED ClassVars
  /\ last' = [kind |-> "make_pipesource", cls |-> c,
              outcome |-> IF ~ ShouldPatch(rshift, pipeoperator, c) THEN "skipped"
                          ELSE IF Immutable(c) THEN "TypeError" ELSE "patched"]
  /\ UNCHANGED <<VerbVars, DispatchVars>>

\* subject >> verb(*args, **kwargs), next to func(subject, *args, **kwargs)
EvalPipe(s, args, kwargs) ==
  /\ verbTarget # "none"
  /\ last' = [kind |-> "pipe", subject |-> s, args |-> args, kwargs |-> kwargs,
              result |-> Rshift(World, registry, s, Decorated(verbTarget, args, kwargs)),
              direct |-> Call(registry, verbTarget, <<s>> \o args, kwargs)]
  /\ UNCHANGED <<ClassVars, VerbVars, DispatchVars>>

\* subject >> verb(*a) >> verb(*b): Python parses it (subject >> verb(*a)) >> verb(*b)
EvalChain(s, a, b) ==
  /\ verbTarget # "none"
  /\ LET mid == Rshift(World, registry, s, Decorated(verbTarget, a, {}))
         fa == Call(registry, verbTarget, <<s>> \o a, {})
     IN last' = [kind |-> "chain", subject |-> s, a |-> a, b |-> b, mid |-> mid,
                 result |-> IF mid.kind = "ok"
                              THEN Rshift(World, registry, mid, Decorated(verbTarget, b, {}))
                              ELSE mid,
                 direct |-> IF fa.kind = "ok"
                              THEN Call(registry, verbTarget, <<fa>> \o b, {})
                              ELSE fa]
  /\ UNCHANGED <<ClassVars, VerbVars, DispatchVars>>

\* instance >> operand for an operand that is no PipeVerb, next to what the
\* same expression returned before any class was patched
EvalOperand(s, o) ==
  /\ last' = [kind |-> "operand", subject |-> s, operand |-> o,
              result |-> Rshift(World, registry, s, o),
              before |-> Rshift(World0, registry, s, o)]
  /\ UNCHANGED <<ClassVars, VerbVars, DispatchVars>>

\* T.__rshift__(inst, operand): the operator installed on T called on an
\* instance of T or of a subclass, next to T.__orig_rshift__(inst, operand)
InvokeInstalled(t, inst, o) ==
  /\ rshift[t].kind = "wrapper"
  /\ \E i \in 1..Len(MRO(inst.cls)) : MRO(inst.cls)[i] = t
  /\ last' = [kind |-> "invoke", cls |-> t, subject |-> inst, operand |-> o,
              result |-> CallOp(World, registry, rshift[t], inst, o, MaxRecursion),
              saved |-> CallOp(World, registry, orig_rshift[t], inst, o, MaxRecursion)]
  /\ UNCHANGED <<ClassVars, VerbVars, DispatchVars>>

Next ==
  \/ Singledispatch
  \/ Pipeverb
  \/ SingledispatchPipeverb
  \/ \E via \in {"func", "verb"}, c \in RegClasses, impl \in Impls : Register(via, c, impl)
  \/ \E c \in PatchInputs : MakePipesource(c)
  \/ \E s \in Subjects, args \in PosArgs, kwargs \in KwArgs : EvalPipe(s, args, kwargs)
  \/ \E s \in Subjects, a \in ChainArgs : \E b \in ChainArgs \ {a} : EvalChain(s, a, b)
  \/ \E s \in Subjects, o \in Operands : EvalOperand(s, o)
  \/ \E t \in PatchInputs, inst \in Instances, o \in Operands : InvokeInstalled(t, inst, o)

Spec == Init /\ [][Next]_vars

\* ---- properties ----

\* The >> resolved for class c hands a PipeVerb operand to the verb: c has no
\* __rshift__, or one that returns NotImplemented for it, or the operator
\* make_pipesource installed; and c is not PipeVerb itself (for two operands
\* of one type the interpreter never tries the reflected method).
Delegates(c) ==
  /\ c # "PipeVerb"
  /\ \/ Lookup(rshift, c).kind = "none"
     \/ Lookup(rshift, c) \in pipeoperator
     \/ Lookup(rshift, c) = OrigFn("Int")

\* C1 as claimed: whatever the subject's type and whether or not it was
\* enabled, subject >> pipeverb(f)(*args, **kwargs) equals
\* f(subject, *args, **kwargs).
C1_AnySubject == last.kind = "pipe" => last.result = last.direct

\* C1 amended: subject >> pipeverb(f)(*args, **kwargs) equals
\* f(subject, *args, **kwargs) whenever the >> of the subject's type hands the
\* verb over (no __rshift__, one returning NotImplemented, or the installed
\* pipe operator) and the subject is no PipeVerb.
C1_DelegatingSubject ==
  (last.kind = "pipe" /\ Delegates(last.subject.cls)) => last.result = last.direct

C1_Witness ==
  /\ last.kind = "pipe"
  /\ last.subject.cls = "Tester"
  /\ Delegates("Tester")
  /\ Len(last.args) = 1
  /\ last.kwargs # {}
  /\ last.result = Obj("Tester", <<"2", "4">>)

\* C2: for a user type T with its own >>, once make_pipesource(T) was applied
\* instance >> d is d applied to the instance and not what T's original >>
\* returns; before that it is what the original >> returns.
C2_EnabledTypeAppliesVerb ==
  (last.kind = "pipe" /\ last.subject.cls \in {"Tester", "Sub"}) =>
    LET s == last.subject
        d == Decorated(verbTarget, last.args, last.kwargs)
        original == CallOp(World0, registry, InitRshift[s.cls], s, d, MaxRecursion)
    IN IF installs[s.cls] >= 1
         THEN /\ last.result = Call(registry, d.pipe_func, <<s>> \o d.args, d.kwargs)
              /\ last.result # original
         ELSE last.result = CallOp(World, registry, InitRshift[s.cls], s, d, MaxRecursion)

C2_Witness ==
  /\ last.kind = "pipe"
  /\ last.subject.cls = "Tester"
  /\ installs["Tester"] = 1
  /\ installs["Sub"] = 1
  /\ last.result.kind = "ok"

\* C3 as claimed: for an instance of an enabled type and an operand that is
\* no PipeVerb, instance >> operand returns what it returned before
\* make_pipesource.
C3_NonDeferredUnchanged ==
  (last.kind = "operand" /\ Lookup(rshift, last.subject.cls) \in pipeoperator) =>
    last.result = last.before

\* C4: after one or more applications of make_pipesource to a type, its
\* __orig_rshift__ is the operator it had before and never a wrapper, and its
\* __rshift__ is the wrapper the first application installed.
C4_Idempotent ==
  \A c \in Classes :
    /\ orig_rshift[c].kind # "wrapper"
    /\ installs[c] >= 1 =>
         /\ rshift[c] = Wrapper(c, 1)
         /\ rshift[c] \in pipeoperator
         /\ orig_rshift[c] = Lookup(InitRshift, c)

C4_Witness ==
  /\ last.kind = "make_pipesource"
  /\ last.cls = "Tester"
  /\ last.outcome = "skipped"
  /\ installs["Tester"] = 1

\* C5: with a verb factory made from the dispatch function, an implementation
\* registered for a type through either register is what both the direct call
\* and the pipe expression run for subjects of that type.
C5_SharedRegistry ==
  verbRegister =>
    /\ \A c \in RegClasses : registry[c] # "none" => Dispatch(registry, c) = registry[c]
    /\ \A s \in Subjects, args \in PosArgs, kwargs \in KwArgs :
         Delegates(s.cls) =>
           LET selected == CallImpl(Dispatch(registry, s.cls), <<s>> \o args, kwargs)
           IN /\ Rshift(World, registry, s, Decorated(verbTarget, args, kwargs)) = selected
              /\ Call(registry, "dispatch", <<s>> \o args, kwargs) = selected

C5_Witness ==
  /\ last.kind = "register"
  /\ last.via = "verb"
  /\ last.cls = "Tester"
  /\ Delegates("Tester")
  /\ registry["List"] # "none"
  /\ Rshift(World, registry, Obj("Tester", <<>>), Decorated(verbTarget, <<>>, {})).kind = "ok"

\* C6: a pipe expression over a subject whose type has no registered
\* implementation runs the generic implementation, and what that raises is
\* the outcome of the >> expression, as of the direct call.
C6_GenericFailureSurfaces ==
  (/\ last.kind = "pipe"
   /\ Delegates(last.subject.cls)
   /\ (verbTarget = "dispatch" => Dispatch(registry, last.subject.cls) = "generic")) =>
    /\ last.result.kind = "raise"
    /\ last.result = CallImpl("generic", <<last.subject>> \o last.args, last.kwargs)
    /\ last.result = last.direct

C6_Witness ==
  /\ last.kind = "pipe"
  /\ last.subject.cls = "Int"
  /\ verbTarget = "dispatch"
  /\ registry["List"] # "none"
  /\ last.result = Raise("NotImplementedError", <<"Int">>)

\* C7: subject >> verb(*a) >> verb(*b) is f(f(subject, *a), *b): the first
\* verb runs on the subject and the second on the first one's result.
C7_ChainLeftToRight ==
  (/\ last.kind = "chain"
   /\ Delegates(last.subject.cls)
   /\ (last.mid.kind = "ok" => Delegates(last.mid.cls))) =>
    /\ last.mid = Call(registry, verbTarget, <<last.subject>> \o last.a, {})
    /\ last.result = last.direct

C7_Witness ==
  /\ last.kind = "chain"
  /\ last.subject = Obj("List", <<"1">>)
  /\ last.result = Obj("List", <<"1", "2", "2", "3", "3">>)

\* C8: the __doc__ of the dispatch function and of the verb factory is the
\* generic implementation's, before and after registrations.
C8_DocPreserved ==
  /\ dispatchMade => funcDoc = GenericDoc
  /\ verbTarget # "none" => verbDoc = GenericDoc

C8_Witness ==
  /\ last.kind = "register"
  /\ verbTarget = "dispatch"
  /\ \A c \in RegClasses : registry[c] # "none"
  /\ verbDoc = GenericDoc
  /\ funcDoc = GenericDoc

\* C9 as claimed: the operator installed on T, called with an operand that is
\* no PipeVerb, runs the original saved for T, whatever instance it is called
\* on (a subclass's included).
C9_RunsOwnSavedOriginal == last.kind = "invoke" => last.result = last.saved

\* C10: make_pipesource on a type without any >> changes nothing: no
\* operator, no __orig_rshift__, no marker.
C10_NoOperatorNoChange ==
  \A c \in Classes :
    Lookup(InitRshift, c).kind = "none" =>
      /\ rshift[c] = NoAttr
      /\ orig_rshift[c] = NoAttr
      /\ installs[c] = 0
      /\ Lookup(rshift, c) \notin pipeoperator

C10_Witness ==
  /\ last.kind = "make_pipesource"
  /\ last.cls = "Plain"
  /\ last.outcome = "skipped"
  /\ installs["Tester"] = 1

====
